---- MODULE Spec2Model ----
(***************************************************************************)
(* Model of the HowLongToBeat client of backend/hltb.lua: the module-level *)
(* cache (token, expiry, search URL, build id, homepage), the exported     *)
(* operations get_auth_token, search_best_match and clear_cache, and the   *)
(* upstream site as the responses its HTTP requests can receive.           *)
(*                                                                         *)
(* A call is a sequence of steps; every blocking HTTP request is a step of *)
(* its own, whose response is drawn from the responses the transport can   *)
(* deliver.  Calls do not overlap in Spec and SpecMatch: the next starts   *)
(* when the previous one has returned.  The clock may advance between the  *)
(* calls and while a request is in flight.                                 *)
(***************************************************************************)
EXTENDS Integers, Sequences, FiniteSets, TLC

\* ------------------------------------------------------------------ bounds
\* The clock advances at most MaxTicks times (by half a TTL each time).
MaxTicks == 5
\* The token endpoint issues at most MaxTokens tokens.
MaxTokens == 2
\* Longest search result list of SpecMatch.
MaxResults == 4
\* Most bundle scripts a homepage of SpecDiscovery names.
MaxScripts == 3
\* Most clock advances of SpecConcurrent.
MaxOverlapTicks == 2
\* Longest image src of SpecDetect, in pieces.
MaxSrcLen == 3

\* ------------------------------------------------------- program constants
TOKEN_TTL == 300
max_steam_id_checks == 3
SEARCH_URL == "search"
SKIP_ENDPOINTS == {"find", "error", "user", "logout"}

\* ----------------------------------------------------------------- values
\* A Lua value that may be nil: <<>> is nil, <<v>> is the value v.
Nil == <<>>
Some(v) == <<v>>

Min(a, b) == IF a < b THEN a ELSE b

\* The clock step: times of interest are issue + TTL/2 (inside the window)
\* and issue + TTL (the expiry instant itself).
ClockStep == TOKEN_TTL \div 2

Range(s) == {s[k] : k \in 1..Len(s)}

\* ------------------------------------------------- hltb_utils (not in src)
\* Characters of game names: lower and upper case letters and a special
\* character that name sanitization filters out.
SpecialChars == {"!"}

LowerChar(c) == IF c = "A" THEN "a" ELSE IF c = "B" THEN "b" ELSE c

sanitize_game_name(s) == SelectSeq(s, LAMBDA c : c \notin SpecialChars)

lower(s) == [k \in 1..Len(s) |-> LowerChar(s[k])]

Normalize(s) == lower(sanitize_game_name(s))

RECURSIVE levenshtein_distance(_, _)
levenshtein_distance(a, b) ==
    IF Len(a) = 0 THEN Len(b)
    ELSE IF Len(b) = 0 THEN Len(a)
    ELSE LET cost == IF Head(a) = Head(b) THEN 0 ELSE 1
             del  == levenshtein_distance(Tail(a), b) + 1
             ins  == levenshtein_distance(a, Tail(b)) + 1
             sub  == levenshtein_distance(Tail(a), Tail(b)) + cost
         IN  Min(del, Min(ins, sub))

\* ------------------------------------------------------------------- state
VARIABLES
    cached_token,       \* nil or the token
    token_expires_at,   \* instant, 0 when no token
    cached_search_url,  \* nil or the endpoint name under BASE_URL .. "api/"
    cached_build_id,    \* nil or the build id
    cached_homepage,    \* nil or the homepage body
    now,                \* os.time()
    ticks,              \* clock advances so far
    issued,             \* tokens the token endpoint has issued so far
    pc,                 \* position of the current call, "idle" between calls
    op,                 \* the current call and its arguments
    loc,                \* its local variables
    obs,                \* what it has done so far: requests issued, results seen
    pre,                \* the cache as the call found it
    ret,                \* what it returned
    last,               \* the operation that completed last
    parked              \* calls waiting in a request while another call runs

cache == <<cached_token, token_expires_at, cached_search_url, cached_build_id,
           cached_homepage>>
clock == <<now, ticks>>
frame == <<op, loc, obs, pre, ret>>
vars == <<cached_token, token_expires_at, cached_search_url, cached_build_id,
          cached_homepage, now, ticks, issued, pc, op, loc, obs, pre, ret, last, parked>>

NoOp == [name |-> "none", force_refresh |-> FALSE, app_name |-> <<>>,
         steam_app_id |-> Nil]

NoLoc == [now |-> 0, auth_token |-> Nil, err |-> Nil, homepage |-> Nil,
          homepage_for |-> "none", script_urls |-> <<>>,
          endpoints_found |-> {}, search_url |-> Nil, search_results |-> Nil,
          possible_choices |-> <<>>, i |-> 0, game_data |-> Nil]

NoObs == [token_req |-> 0, homepage_req |-> 0, bundle_req |-> <<>>,
          search_req |-> 0, detail_req |-> <<>>, detail_calls |-> <<>>,
          confirmed_at |-> 0, fresh_token |-> Nil, url_resolved |-> FALSE,
          build_extracted |-> FALSE, sent_token |-> Nil, sent_url |-> Nil,
          ranked |-> FALSE, failed_at |-> 0, verified_at |-> 0,
          accepted_at |-> 0, search_resp |-> "none", detail_resp |-> "none",
          cleared |-> Nil]

NoPre == [cached_token |-> Nil, token_expires_at |-> 0,
          cached_search_url |-> Nil, cached_build_id |-> Nil,
          cached_homepage |-> Nil, after_clear |-> FALSE]

\* Return values: nil, (token, err), a search result item, or a raised error.
NoRet == [kind |-> "none", token |-> Nil, err |-> Nil, item |-> Nil]
RetNil == [kind |-> "nil", token |-> Nil, err |-> Nil, item |-> Nil]
RetRaised == [kind |-> "raised", token |-> Nil, err |-> Nil, item |-> Nil]
RetItem(it) == [kind |-> "item", token |-> Nil, err |-> Nil, item |-> Some(it)]
RetToken(t, e) == [kind |-> "token", token |-> t, err |-> e, item |-> Nil]

Init ==
    /\ cached_token = Nil
    /\ token_expires_at = 0
    /\ cached_search_url = Nil
    /\ cached_build_id = Nil
    /\ cached_homepage = Nil
    /\ now = 0
    /\ ticks = 0
    /\ issued = 0
    /\ pc = "idle"
    /\ op = NoOp
    /\ loc = NoLoc
    /\ obs = NoObs
    /\ pre = NoPre
    /\ ret = NoRet
    /\ last = "none"
    /\ parked = <<>>

\* --------------------------------------------------------------- upstream
\* A response of the token endpoint, as get_auth_token examines it: no
\* response at all, a status that is not 200, a body json.decode rejects, a
\* decoded object without a token, or an object with one.
TokenResponses ==
    {[kind |-> k] : k \in {"error", "status", "badjson", "notoken", "ok"}}

\* The failure get_auth_token reports for a response, nil for none.
TokenError(r) ==
    IF r.kind = "error" THEN Some("Request failed")
    ELSE IF r.kind = "status" THEN Some("HTTP status")
    ELSE IF r.kind = "badjson" THEN Some("Invalid JSON response")
    ELSE IF r.kind = "notoken" THEN Some("No token in response")
    ELSE Nil

\* A homepage body, as the two scans read it: the chunk script paths in
\* order of appearance, and the build id next to each manifest marker.
Body(scripts, ssg, bm) ==
    [script_urls |-> scripts, ssg_manifest |-> ssg, build_manifest |-> bm]

Homepages ==
    { Body(<<"c1", "c2">>, Some("b1"), Nil),
      Body(<<"c1">>, Nil, Some("b2")),
      Body(<<>>, Some("b1"), Some("b2")),
      Body(<<"c1", "c2">>, Nil, Nil) }

MatchHomepages == { Body(<<>>, Some("b1"), Nil) }

\* A homepage response: a failure (no response or a status that is not 200)
\* or a body.
HomepageResponses(bodies) ==
    {[ok |-> FALSE, body |-> Nil]} \cup {[ok |-> TRUE, body |-> Some(b)] : b \in bodies}

\* Line 168-171: the id next to _ssgManifest.js, else next to _buildManifest.js.
BuildIdOf(body) ==
    IF body.ssg_manifest # Nil THEN body.ssg_manifest ELSE body.build_manifest

\* A bundle script, as the endpoint scan reads it: the quoted "/api/<name>"
\* literals in order of appearance, and the names that are the target of a
\* fetch(..., {method: "POST"}) in the same script.
Endpoints == {"user", "lookup", "stats"}

LiteralLists == {<<>>} \cup {<<a>> : a \in Endpoints}
                       \cup {<<a, b>> : a \in Endpoints, b \in Endpoints}

Bundles ==
    {[literals |-> l, posts |-> p] : l \in LiteralLists, p \in SUBSET Endpoints}

ValidBundles == {b \in Bundles : b.posts \subseteq Range(b.literals)}

BundleResponses(contents) ==
    {[ok |-> FALSE, content |-> Nil]}
        \cup {[ok |-> TRUE, content |-> Some(c)] : c \in contents}

\* Lines 133-138 on one script alone: the paths that are not skip-listed and
\* are the target of a POST fetch in that script.
VerifiedPaths(content) ==
    {e \in Range(content.literals) : e \notin SKIP_ENDPOINTS /\ e \in content.posts}

\* Lines 127-146: the scan of one script.  found is endpoints_found as the
\* earlier scripts left it.  Returns the endpoint accepted (nil for none) and
\* endpoints_found afterwards.
RECURSIVE ScanBundle(_, _, _)
ScanBundle(literals, posts, found) ==
    IF literals = <<>> THEN [endpoint |-> Nil, found |-> found]
    ELSE LET endpoint == Head(literals) IN
         IF endpoint \in found
         THEN ScanBundle(Tail(literals), posts, found)
         ELSE IF endpoint \in SKIP_ENDPOINTS
         THEN ScanBundle(Tail(literals), posts, found \cup {endpoint})
         ELSE IF endpoint \in posts
         THEN [endpoint |-> Some(endpoint), found |-> found \cup {endpoint}]
         ELSE ScanBundle(Tail(literals), posts, found \cup {endpoint})

\* An element of the search response's data array: its Lua type and, for a
\* table, its fields and the set of required fields whose type is not the
\* required one.
Item(id, name, count) ==
    [lua_type |-> "table", game_id |-> id, game_name |-> name,
     comp_all_count |-> count, wrong |-> {}]

Mistyped(it, field) == [it EXCEPT !.wrong = {field}]
NotATable(it, t) == [it EXCEPT !.lua_type = t]

\* A search response: a failure, or a decoded object whose data field is a
\* table (an array of elements) or something else.
SearchFailures == {[kind |-> k, data_type |-> "nil", data |-> <<>>] :
                       k \in {"error", "status", "badjson"}}
SearchNotArray == [kind |-> "ok", data_type |-> "string", data |-> <<>>]
SearchData(items) == [kind |-> "ok", data_type |-> "table", data |-> items]

\* Lines 471-484 on the elements from position k on: "ok", "nil" (a
\* failed check) or "raise" (indexing a value that is neither a table nor a
\* string).
RECURSIVE ValidateItems(_, _)
ValidateItems(data, k) ==
    IF k > Len(data) THEN "ok"
    ELSE LET item == data[k] IN
         IF item.lua_type \notin {"table", "string"} THEN "raise"
         ELSE IF item.lua_type = "string" THEN "nil"
         ELSE IF "game_id" \in item.wrong THEN "nil"
         ELSE IF "game_name" \in item.wrong THEN "nil"
         ELSE IF "comp_all_count" \in item.wrong THEN "nil"
         ELSE ValidateItems(data, k + 1)

\* The schema of lines 454 and 471-484: data is an array, and every element
\* has a numeric game_id, a string game_name and a numeric comp_all_count.
SchemaViolation(r) ==
    /\ r.kind = "ok"
    /\ \/ r.data_type # "table"
       \/ \E k \in 1..Len(r.data) :
              r.data[k].lua_type # "table" \/ r.data[k].wrong # {}

\* The response as the upstream sent it: no usable body ("failure"), a body
\* that violates the schema ("schema"), an empty result array ("empty") or a
\* result array with items ("valid").
ResponseClass(r) ==
    IF r.kind # "ok" THEN "failure"
    ELSE IF SchemaViolation(r) THEN "schema"
    ELSE IF r.data = <<>> THEN "empty"
    ELSE "valid"

\* Mutant of lines 454-486: an empty result array is reported as a failure.
SearchOutcomeRejectsEmpty(r) ==
    IF r.kind # "ok" THEN "nil"
    ELSE IF r.data_type # "table" THEN "nil"
    ELSE IF Len(r.data) = 0 THEN "nil"
    ELSE IF r.data[1].lua_type # "table" THEN "raise"
    ELSE ValidateItems(r.data, 1)

\* Lines 437-486: what M.search makes of a response.
SearchOutcome(r) ==
    IF r.kind # "ok" THEN "nil"
    ELSE IF r.data_type # "table" THEN "nil"
    ELSE IF Len(r.data) > 0 /\ r.data[1].lua_type # "table" THEN "raise"
    ELSE ValidateItems(r.data, 1)

\* Lines 251-259: the fields fetch_game_data requires of the element of the
\* game array; all are numbers but game_name, a string.
DetailFields == {"comp_main", "comp_plus", "comp_100", "comp_all", "game_id",
                 "profile_steam", "game_name"}

\* An element of the detail response's game array: its Lua type and, for a
\* table, the required fields that are missing or not of the required type.
Detail(steam) == [lua_type |-> "table", profile_steam |-> steam, wrong |-> {}]

\* A detail response: a failure, a decoded object without the nested path
\* pageProps.game.data.game, or one with the array at that path.
DetailFailures == {[kind |-> k, game |-> <<>>] :
                       k \in {"error", "status", "badjson", "shape"}}
DetailData(game) == [kind |-> "ok", game |-> game]

\* Lines 53-60 on the element of the game array: "ok", "nil" or "raise".
validate_fields(tbl) ==
    IF tbl.lua_type \notin {"table", "string"} THEN "raise"
    ELSE IF tbl.lua_type = "string" THEN "nil"
    ELSE IF tbl.wrong # {} THEN "nil"
    ELSE "ok"

\* The detail response as the upstream sent it: no usable body or no array at
\* the nested path ("failure"), an array that does not hold exactly one
\* element ("count"), an element that is no table ("element"), a table with
\* a required field missing or mistyped ("field"), or a record ("valid").
DetailClass(r) ==
    IF r.kind # "ok" THEN "failure"
    ELSE IF Len(r.game) # 1 THEN "count"
    ELSE IF r.game[1].lua_type # "table" THEN "element"
    ELSE IF r.game[1].wrong \cap DetailFields # {} THEN "field"
    ELSE "valid"

\* Mutant of line 243: only an empty array is rejected, and the first
\* element of a longer one is validated.
DetailOutcomeFirstOfMany(r) ==
    IF r.kind # "ok" THEN "nil"
    ELSE IF Len(r.game) < 1 THEN "nil"
    ELSE validate_fields(r.game[1])

\* Lines 204-265: what fetch_game_data makes of a response.
DetailOutcome(r) ==
    IF r.kind # "ok" THEN "nil"
    ELSE IF Len(r.game) # 1 THEN "nil"
    ELSE validate_fields(r.game[1])

\* ---------------------------------------------------------------- ranking
\* Mutant of line 532: ties are broken by ascending popularity.
BeforeAscendingCount(a, b) ==
    IF a.distance = b.distance
    THEN a.comp_all_count < b.comp_all_count
    ELSE a.distance < b.distance

\* Line 530-535: the order function handed to table.sort.
Before(a, b) ==
    IF a.distance = b.distance
    THEN a.comp_all_count > b.comp_all_count
    ELSE a.distance < b.distance

\* Lines 518-527: the candidates in result order.
Choices(app_name, data) ==
    [k \in 1..Len(data) |->
        [distance |-> levenshtein_distance(Normalize(app_name),
                                           Normalize(data[k].game_name)),
         comp_all_count |-> data[k].comp_all_count,
         item |-> data[k]]]

Orderings(n) ==
    {f \in [1..n -> 1..n] : \A a, b \in 1..n : a # b => f[a] # f[b]}

\* table.sort is not stable: it may leave the array in any order in which no
\* element comes after one it must come before.
Sorted(s) == \A a, b \in 1..Len(s) : a < b => ~Before(s[b], s[a])

SortResults(s) ==
    {t \in {[k \in 1..Len(s) |-> s[f[k]]] : f \in Orderings(Len(s))} : Sorted(t)}

\* Lines 509-515: the position of the first exact match, 0 for none.
ExactMatches(app_name, data) ==
    {k \in 1..Len(data) : Normalize(data[k].game_name) = Normalize(app_name)}

\* Mutant of lines 510-515: the last exact match wins.
LastExact(app_name, data) ==
    IF ExactMatches(app_name, data) = {} THEN 0
    ELSE CHOOSE k \in ExactMatches(app_name, data) :
             \A m \in ExactMatches(app_name, data) : k >= m

FirstExact(app_name, data) ==
    IF ExactMatches(app_name, data) = {} THEN 0
    ELSE CHOOSE k \in ExactMatches(app_name, data) :
             \A m \in ExactMatches(app_name, data) : k <= m


\* ---------------------------------------------------------- get_auth_token
\* Mutant of lines 328-329: an expiry later than the new one is kept.
StoreTokenKeepsLaterExpiry(token, t) ==
    /\ cached_token' = Some(token)
    /\ token_expires_at' = IF token_expires_at > t + TOKEN_TTL
                           THEN token_expires_at ELSE t + TOKEN_TTL

\* Mutants of line 292: the token is served at its expiry instant; a forced
\* refresh is ignored.
TokenCachedAtExpiry(force_refresh, t) ==
    ~force_refresh /\ cached_token # Nil /\ t <= token_expires_at

TokenCachedDespiteForce(force_refresh, t) ==
    cached_token # Nil /\ t < token_expires_at

\* Line 292: the cached token is served.
TokenCached(force_refresh, t) ==
    ~force_refresh /\ cached_token # Nil /\ t < token_expires_at

\* Lines 290-309: the call reads the clock, serves the cached token or
\* issues the token request.
EnterGetAuthToken(force_refresh, l, o) ==
    IF TokenCached(force_refresh, now)
    THEN /\ loc' = [l EXCEPT !.now = now, !.auth_token = cached_token, !.err = Nil]
         /\ obs' = o
         /\ pc' = "token_ret"
    ELSE /\ loc' = [l EXCEPT !.now = now]
         /\ obs' = [o EXCEPT !.token_req = @ + 1]
         /\ pc' = "token_http"

Snapshot ==
    [cached_token |-> cached_token, token_expires_at |-> token_expires_at,
     cached_search_url |-> cached_search_url,
     cached_build_id |-> cached_build_id, cached_homepage |-> cached_homepage,
     after_clear |-> (last = "clear_cache")]

\* M.get_auth_token(force_refresh), called from outside.
CallGetAuthToken(force_refresh) ==
    /\ pc = "idle"
    /\ op' = [NoOp EXCEPT !.name = "get_auth_token", !.force_refresh = force_refresh]
    /\ pre' = Snapshot
    /\ EnterGetAuthToken(force_refresh, NoLoc, NoObs)
    /\ UNCHANGED <<cache, clock, issued, ret, last, parked>>

\* Mutant of line 329: the TTL runs from the arrival of the response.
StoreTokenFromArrival(token, t) ==
    /\ cached_token' = Some(token)
    /\ token_expires_at' = now + TOKEN_TTL

\* Lines 328-329: the token and its expiry are stored.
StoreToken(token, t) ==
    /\ cached_token' = Some(token)
    /\ token_expires_at' = t + TOKEN_TTL

\* Mutant of lines 311-326: a failed token request drops the cached token.
TokenHttpFailureClears ==
    /\ pc = "token_http"
    /\ \E r \in TokenResponses :
        IF r.kind = "ok"
        THEN /\ issued < MaxTokens
             /\ issued' = issued + 1
             /\ StoreToken(issued + 1, loc.now)
             /\ loc' = [loc EXCEPT !.auth_token = Some(issued + 1), !.err = Nil]
             /\ obs' = [obs EXCEPT !.fresh_token = Some(issued + 1)]
        ELSE /\ loc' = [loc EXCEPT !.auth_token = Nil, !.err = TokenError(r)]
             /\ cached_token' = Nil
             /\ token_expires_at' = 0
             /\ UNCHANGED <<issued, obs>>
    /\ pc' = "token_ret"
    /\ UNCHANGED <<cached_search_url, cached_build_id, cached_homepage, clock,
                   op, pre, ret, last, parked>>

\* Lines 311-332: the token response arrives.
TokenHttp ==
    /\ pc = "token_http"
    /\ \E r \in TokenResponses :
        IF r.kind = "ok"
        THEN /\ issued < MaxTokens
             /\ issued' = issued + 1
             /\ StoreToken(issued + 1, loc.now)
             /\ loc' = [loc EXCEPT !.auth_token = Some(issued + 1), !.err = Nil]
             /\ obs' = [obs EXCEPT !.fresh_token = Some(issued + 1)]
        ELSE /\ loc' = [loc EXCEPT !.auth_token = Nil, !.err = TokenError(r)]
             /\ UNCHANGED <<cached_token, token_expires_at, issued, obs>>
    /\ pc' = "token_ret"
    /\ UNCHANGED <<cached_search_url, cached_build_id, cached_homepage, clock,
                   op, pre, ret, last, parked>>

\* ------------------------------------------------------------ get_homepage
\* Lines 64-78: the cached body is served or the homepage request is issued.
\* who is the caller waiting for the body: "url" or "build".
EnterGetHomepage(who, l, o) ==
    IF cached_homepage # Nil
    THEN /\ loc' = [l EXCEPT !.homepage = cached_homepage, !.homepage_for = who]
         /\ obs' = o
         /\ pc' = "homepage_ret"
    ELSE /\ loc' = [l EXCEPT !.homepage_for = who]
         /\ obs' = [o EXCEPT !.homepage_req = @ + 1]
         /\ pc' = "homepage_http"

\* Lines 80-86: the homepage response arrives.
HomepageHttp(bodies) ==
    /\ pc = "homepage_http"
    /\ \E r \in HomepageResponses(bodies) :
        IF r.ok
        THEN /\ cached_homepage' = r.body
             /\ loc' = [loc EXCEPT !.homepage = r.body]
        ELSE /\ loc' = [loc EXCEPT !.homepage = Nil]
             /\ UNCHANGED cached_homepage
    /\ pc' = "homepage_ret"
    /\ UNCHANGED <<cached_token, token_expires_at, cached_search_url,
                   cached_build_id, clock, issued, op, obs, pre, ret, last, parked>>

\* ---------------------------------------------------------- get_search_url
\* Mutant of lines 277-283: no fallback when extraction yields nothing.
StoreSearchUrlNoFallback(search_url, l) ==
    /\ cached_search_url' = search_url
    /\ loc' = [l EXCEPT !.search_url = cached_search_url']
    /\ pc' = "search_post"

\* Lines 277-285 and 427-435: get_search_url stores the URL (the extracted
\* endpoint, or the static fallback for nil) and M.search goes on to post.
StoreSearchUrl(search_url, l) ==
    /\ cached_search_url' = (IF search_url # Nil THEN search_url ELSE Some(SEARCH_URL))
    /\ loc' = [l EXCEPT !.search_url = cached_search_url']
    /\ pc' = "search_post"

\* Mutant of lines 270-272: a cached fallback is not served; the URL is
\* resolved again.
SearchAfterTokenReexaminesFallback ==
    IF loc.auth_token = Nil
    THEN /\ ret' = RetNil
         /\ pc' = "done"
         /\ UNCHANGED <<loc, obs>>
    ELSE /\ UNCHANGED ret
         /\ IF cached_search_url \notin {Nil, Some(SEARCH_URL)}
            THEN /\ loc' = [loc EXCEPT !.search_url = cached_search_url]
                 /\ pc' = "search_post"
                 /\ UNCHANGED obs
            ELSE EnterGetHomepage("url", loc, [obs EXCEPT !.url_resolved = TRUE])

\* Mutant of lines 414-424: the search URL is resolved before the token is
\* looked at.
SearchAfterTokenResolvesUrlFirst ==
    IF cached_search_url = Nil
    THEN /\ EnterGetHomepage("url", loc, [obs EXCEPT !.url_resolved = TRUE])
         /\ UNCHANGED ret
    ELSE IF loc.auth_token = Nil
    THEN /\ ret' = RetNil
         /\ pc' = "done"
         /\ UNCHANGED <<loc, obs>>
    ELSE /\ loc' = [loc EXCEPT !.search_url = cached_search_url]
         /\ pc' = "search_post"
         /\ UNCHANGED <<ret, obs>>

\* Mutant of lines 415-418: a failed token fetch is tried once more.
SearchAfterTokenRetries ==
    IF loc.auth_token = Nil
    THEN IF obs.token_req < 2
         THEN /\ EnterGetAuthToken(TRUE, loc, obs)
              /\ UNCHANGED ret
         ELSE /\ ret' = RetNil
              /\ pc' = "done"
              /\ UNCHANGED <<loc, obs>>
    ELSE /\ UNCHANGED ret
         /\ IF cached_search_url # Nil
            THEN /\ loc' = [loc EXCEPT !.search_url = cached_search_url]
                 /\ pc' = "search_post"
                 /\ UNCHANGED obs
            ELSE EnterGetHomepage("url", loc, [obs EXCEPT !.url_resolved = TRUE])

\* Lines 415-424, after get_auth_token has returned to M.search, and lines
\* 270-275 and 94.
SearchAfterToken ==
    IF loc.auth_token = Nil
    THEN /\ ret' = RetNil
         /\ pc' = "done"
         /\ UNCHANGED <<loc, obs>>
    ELSE /\ UNCHANGED ret
         /\ IF cached_search_url # Nil
            THEN /\ loc' = [loc EXCEPT !.search_url = cached_search_url]
                 /\ pc' = "search_post"
                 /\ UNCHANGED obs
            ELSE EnterGetHomepage("url", loc, [obs EXCEPT !.url_resolved = TRUE])

\* get_auth_token returns: to the outside, or to M.search.
TokenReturn ==
    /\ pc = "token_ret"
    /\ IF op.name = "get_auth_token"
       THEN /\ ret' = RetToken(loc.auth_token, loc.err)
            /\ pc' = "done"
            /\ UNCHANGED <<loc, obs>>
       ELSE SearchAfterToken
    /\ UNCHANGED <<cache, clock, issued, op, pre, last, parked>>

\* Lines 186-202: fetch_game_data has its build id and issues the request.
IssueDetail(l, o) ==
    /\ loc' = l
    /\ obs' = [o EXCEPT !.detail_req =
                   Append(@, l.possible_choices[l.i].item.game_id)]
    /\ pc' = "detail_http"

\* Mutant of lines 163-189: only the homepage is checked, not the build id.
BuildIdAssumed(homepage) == homepage # Nil

\* Lines 163-173 and 187: extract_build_id has a build id for fetch_game_data.
BuildIdFound(homepage) == homepage # Nil /\ BuildIdOf(homepage[1]) # Nil

\* get_homepage returns: to extract_search_url (lines 95-110) or to
\* extract_build_id (lines 163-189).
HomepageReturn ==
    /\ pc = "homepage_ret"
    /\ IF loc.homepage_for = "url"
       THEN /\ IF loc.homepage = Nil
               THEN /\ StoreSearchUrl(Nil, loc)
                    /\ UNCHANGED obs
               ELSE /\ loc' = [loc EXCEPT !.script_urls = loc.homepage[1].script_urls,
                                          !.endpoints_found = {}]
                    /\ pc' = "scripts"
                    /\ UNCHANGED <<cached_search_url, obs>>
            /\ UNCHANGED cached_build_id
       ELSE /\ IF ~BuildIdFound(loc.homepage)
               THEN /\ loc' = [loc EXCEPT !.game_data = Nil]
                    /\ pc' = "detail_ret"
                    /\ UNCHANGED <<cached_build_id, obs>>
               ELSE /\ cached_build_id' = BuildIdOf(loc.homepage[1])
                    /\ IssueDetail(loc, [obs EXCEPT !.build_extracted = TRUE])
            /\ UNCHANGED cached_search_url
    /\ UNCHANGED <<cached_token, token_expires_at, cached_homepage, clock,
                   issued, op, pre, ret, last, parked>>

\* Lines 114-120 and 150-151: the next script is requested, or none is left.
ScriptLoop ==
    /\ pc = "scripts"
    /\ IF loc.script_urls = <<>>
       THEN /\ StoreSearchUrl(Nil, loc)
            /\ UNCHANGED obs
       ELSE /\ obs' = [obs EXCEPT !.bundle_req = Append(@, Head(loc.script_urls))]
            /\ pc' = "bundle_http"
            /\ UNCHANGED <<loc, cached_search_url>>
    /\ UNCHANGED <<cached_token, token_expires_at, cached_build_id,
                   cached_homepage, clock, issued, op, pre, ret, last, parked>>

\* Mutant of line 122: a failed script request ends the discovery.
BundleHttpFailureEnds(contents) ==
    /\ pc = "bundle_http"
    /\ \E r \in BundleResponses(contents) :
        LET scan == IF r.ok
                    THEN ScanBundle(r.content[1].literals, r.content[1].posts,
                                    loc.endpoints_found)
                    ELSE [endpoint |-> Nil, found |-> loc.endpoints_found]
            k == Len(obs.bundle_req)
            o == [obs EXCEPT
                    !.failed_at = IF ~r.ok /\ @ = 0 THEN k ELSE @,
                    !.verified_at =
                        IF r.ok /\ @ = 0 /\ VerifiedPaths(r.content[1]) # {}
                        THEN k ELSE @]
        IN  IF scan.endpoint # Nil \/ ~r.ok
            THEN /\ StoreSearchUrl(scan.endpoint,
                                   [loc EXCEPT !.endpoints_found = scan.found])
                 /\ obs' = [o EXCEPT !.accepted_at = IF r.ok THEN k ELSE @]
            ELSE /\ loc' = [loc EXCEPT !.endpoints_found = scan.found,
                                       !.script_urls = Tail(@)]
                 /\ obs' = o
                 /\ pc' = "scripts"
                 /\ UNCHANGED cached_search_url
    /\ UNCHANGED <<cached_token, token_expires_at, cached_build_id,
                   cached_homepage, clock, issued, op, pre, ret, last, parked>>

\* Lines 122-147: the script response arrives and is scanned.  obs notes
\* the position of the first script whose request failed, of the first script
\* that holds a verified path, and of the script the scan accepted a path of.
BundleHttp(contents) ==
    /\ pc = "bundle_http"
    /\ \E r \in BundleResponses(contents) :
        LET scan == IF r.ok
                    THEN ScanBundle(r.content[1].literals, r.content[1].posts,
                                    loc.endpoints_found)
                    ELSE [endpoint |-> Nil, found |-> loc.endpoints_found]
            k == Len(obs.bundle_req)
            o == [obs EXCEPT
                    !.failed_at = IF ~r.ok /\ @ = 0 THEN k ELSE @,
                    !.verified_at =
                        IF r.ok /\ @ = 0 /\ VerifiedPaths(r.content[1]) # {}
                        THEN k ELSE @]
        IN  IF scan.endpoint # Nil
            THEN /\ StoreSearchUrl(scan.endpoint,
                                   [loc EXCEPT !.endpoints_found = scan.found])
                 /\ obs' = [o EXCEPT !.accepted_at = k]
            ELSE /\ loc' = [loc EXCEPT !.endpoints_found = scan.found,
                                       !.script_urls = Tail(@)]
                 /\ obs' = o
                 /\ pc' = "scripts"
                 /\ UNCHANGED cached_search_url
    /\ UNCHANGED <<cached_token, token_expires_at, cached_build_id,
                   cached_homepage, clock, issued, op, pre, ret, last, parked>>


\* ---------------------------------------------------------------- M.search
\* Lines 427-435: the search request is issued.
SearchPost ==
    /\ pc = "search_post"
    /\ obs' = [obs EXCEPT !.search_req = @ + 1, !.sent_token = loc.auth_token,
                          !.sent_url = loc.search_url]
    /\ pc' = "search_http"
    /\ UNCHANGED <<cache, clock, issued, op, loc, pre, ret, last, parked>>

\* Lines 437-486: the search response arrives and is validated.  obs notes
\* what kind of response it was.
SearchHttp(responses) ==
    /\ pc = "search_http"
    /\ \E r \in responses :
        LET outcome == SearchOutcome(r) IN
        /\ obs' = [obs EXCEPT !.search_resp = ResponseClass(r)]
        /\ IF outcome = "raise"
           THEN /\ ret' = RetRaised
                /\ pc' = "done"
                /\ UNCHANGED loc
           ELSE /\ loc' = [loc EXCEPT !.search_results =
                              IF outcome = "ok" THEN Some(r.data) ELSE Nil]
                /\ pc' = "search_ret"
                /\ UNCHANGED ret
    /\ UNCHANGED <<cache, clock, issued, op, pre, last, parked>>

\* ------------------------------------------------------- search_best_match
\* M.search_best_match(app_name, steam_app_id), called from outside: lines
\* 491-493, 409-414 and the start of get_auth_token.
CallSearchBestMatch(app_name, steam_app_id) ==
    /\ pc = "idle"
    /\ op' = [NoOp EXCEPT !.name = "search_best_match", !.app_name = app_name,
                          !.steam_app_id = steam_app_id]
    /\ pre' = Snapshot
    /\ EnterGetAuthToken(FALSE, NoLoc, NoObs)
    /\ UNCHANGED <<cache, clock, issued, ret, last, parked>>

\* Mutant of line 500: the response table is returned instead of nil.
ResponseForNoResults == [RetNil EXCEPT !.kind = "response"]

\* Line 500: what search_best_match returns for an empty result array.
NoResults == RetNil

\* Lines 494-515: M.search has returned; no results, or the first exact
\* match, ends the call.
SearchReturn ==
    /\ pc = "search_ret"
    /\ IF loc.search_results = Nil
       THEN /\ ret' = RetNil
            /\ pc' = "done"
       ELSE LET data == loc.search_results[1]
                k == FirstExact(op.app_name, data)
            IN  IF Len(data) = 0
                THEN /\ ret' = NoResults
                     /\ pc' = "done"
                ELSE IF k # 0
                THEN /\ ret' = RetItem(data[k])
                     /\ pc' = "done"
                ELSE /\ pc' = "rank"
                     /\ UNCHANGED ret
    /\ UNCHANGED <<cache, clock, issued, op, loc, obs, pre, last, parked>>

\* Line 538: confirmation by Steam id is attempted.
WantsConfirmation(steam_app_id, possible_choices) ==
    steam_app_id # Nil /\ Len(possible_choices) > 0

\* Lines 517-539: the candidates are built and sorted.
Rank ==
    /\ pc = "rank"
    /\ \E sorted \in SortResults(Choices(op.app_name, loc.search_results[1])) :
        /\ loc' = [loc EXCEPT !.possible_choices = sorted, !.i = 1]
        /\ pc' = IF WantsConfirmation(op.steam_app_id, sorted)
                 THEN "confirm" ELSE "best"
    /\ obs' = [obs EXCEPT !.ranked = TRUE]
    /\ UNCHANGED <<cache, clock, issued, op, pre, ret, last, parked>>

\* Mutant of line 540: the loop runs over every candidate.
LastCheckUncapped(possible_choices) == Len(possible_choices)

\* Line 540: the upper bound of the confirmation loop.
LastCheck(possible_choices) == Min(max_steam_id_checks, Len(possible_choices))

\* Mutant of lines 156-158: the cached build id is not used.
ConfirmAlwaysExtracts ==
    /\ pc = "confirm"
    /\ IF loc.i <= LastCheck(loc.possible_choices)
       THEN LET o == [obs EXCEPT !.detail_calls =
                         Append(@, loc.possible_choices[loc.i].item.game_id)]
            IN  EnterGetHomepage("build", loc, o)
       ELSE /\ pc' = "best"
            /\ UNCHANGED <<loc, obs>>
    /\ UNCHANGED <<cache, clock, issued, op, pre, ret, last, parked>>

\* Lines 540-542 and 186-189, 156-162: the loop calls fetch_game_data for
\* candidate i, which needs the build id, or is over.
Confirm ==
    /\ pc = "confirm"
    /\ IF loc.i <= LastCheck(loc.possible_choices)
       THEN LET o == [obs EXCEPT !.detail_calls =
                         Append(@, loc.possible_choices[loc.i].item.game_id)]
            IN  IF cached_build_id # Nil
                THEN IssueDetail(loc, o)
                ELSE EnterGetHomepage("build", loc, o)
       ELSE /\ pc' = "best"
            /\ UNCHANGED <<loc, obs>>
    /\ UNCHANGED <<cache, clock, issued, op, pre, ret, last, parked>>

\* Lines 204-265: the detail response arrives and is validated.
\* obs.confirmed_at notes the first candidate whose response was a valid
\* record carrying the supplied Steam id, obs.detail_resp what kind of
\* response it was.
DetailHttp(responses) ==
    /\ pc = "detail_http"
    /\ \E r \in responses :
        LET outcome == DetailOutcome(r)
            o == [obs EXCEPT !.detail_resp = DetailClass(r)]
        IN
        IF outcome = "raise"
        THEN /\ ret' = RetRaised
             /\ pc' = "done"
             /\ obs' = o
             /\ UNCHANGED loc
        ELSE /\ loc' = [loc EXCEPT !.game_data =
                           IF outcome = "ok" THEN Some(r.game[1]) ELSE Nil]
             /\ obs' = IF /\ outcome = "ok"
                          /\ Some(r.game[1].profile_steam) = op.steam_app_id
                          /\ obs.confirmed_at = 0
                       THEN [o EXCEPT !.confirmed_at = loc.i]
                       ELSE o
             /\ pc' = "detail_ret"
             /\ UNCHANGED ret
    /\ UNCHANGED <<cache, clock, issued, op, pre, last, parked>>

\* Mutant of line 543: the comparison is inverted.
ConfirmsInverted(game_data, steam_app_id) ==
    game_data # Nil /\ Some(game_data[1].profile_steam) # steam_app_id

\* Line 543: the detail record confirms the candidate.
Confirms(game_data, steam_app_id) ==
    game_data # Nil /\ Some(game_data[1].profile_steam) = steam_app_id

\* Mutant of line 545: the detail record is returned, not the candidate.
DetailReturnsRecord ==
    /\ pc = "detail_ret"
    /\ IF Confirms(loc.game_data, op.steam_app_id)
       THEN /\ ret' = RetItem(loc.game_data[1])
            /\ pc' = "done"
            /\ UNCHANGED <<loc, obs>>
       ELSE /\ loc' = [loc EXCEPT !.i = @ + 1, !.game_data = Nil]
            /\ obs' = [obs EXCEPT !.detail_resp = "none"]
            /\ pc' = "confirm"
            /\ UNCHANGED ret
    /\ UNCHANGED <<cache, clock, issued, op, pre, last, parked>>

\* Lines 543-547: fetch_game_data has returned.  game_data is local to the
\* loop body: it is gone when the loop goes on, and so is the response.
DetailReturn ==
    /\ pc = "detail_ret"
    /\ IF Confirms(loc.game_data, op.steam_app_id)
       THEN /\ ret' = RetItem(loc.possible_choices[loc.i].item)
            /\ pc' = "done"
            /\ UNCHANGED <<loc, obs>>
       ELSE /\ loc' = [loc EXCEPT !.i = @ + 1, !.game_data = Nil]
            /\ obs' = [obs EXCEPT !.detail_resp = "none"]
            /\ pc' = "confirm"
            /\ UNCHANGED ret
    /\ UNCHANGED <<cache, clock, issued, op, pre, last, parked>>

\* Mutant of line 552: the last candidate is taken for the best.
BestTakesLast ==
    /\ pc = "best"
    /\ ret' = IF Len(loc.possible_choices) > 0
              THEN RetItem(loc.possible_choices[Len(loc.possible_choices)].item)
              ELSE RetNil
    /\ pc' = "done"
    /\ UNCHANGED <<cache, clock, issued, op, loc, obs, pre, last, parked>>

\* Lines 551-557: the best candidate by distance is returned.
Best ==
    /\ pc = "best"
    /\ ret' = IF Len(loc.possible_choices) > 0
              THEN RetItem(loc.possible_choices[1].item)
              ELSE RetNil
    /\ pc' = "done"
    /\ UNCHANGED <<cache, clock, issued, op, loc, obs, pre, last, parked>>

\* The call hands its result to the caller.
Return ==
    /\ pc = "done"
    /\ pc' = "idle"
    /\ last' = op.name
    /\ op' = NoOp
    /\ loc' = NoLoc
    /\ obs' = NoObs
    /\ pre' = NoPre
    /\ ret' = NoRet
    /\ UNCHANGED <<cache, clock, issued, parked>>

\* -------------------------------------------------------------- clear_cache
\* Mutant of lines 561-567: the search URL is not cleared.
ClearCacheKeepsSearchUrl ==
    /\ pc = "idle"
    /\ cached_build_id' = Nil
    /\ cached_homepage' = Nil
    /\ cached_token' = Nil
    /\ token_expires_at' = 0
    /\ last' = "clear_cache"
    /\ UNCHANGED <<cached_search_url, clock, issued, pc, frame, parked>>

\* Mutant of line 566: the expiry is not reset.
ClearCacheKeepsExpiry ==
    /\ pc = "idle"
    /\ cached_search_url' = Nil
    /\ cached_build_id' = Nil
    /\ cached_homepage' = Nil
    /\ cached_token' = Nil
    /\ last' = "clear_cache"
    /\ UNCHANGED <<token_expires_at, clock, issued, pc, frame, parked>>

\* The requests a call has issued so far.
RequestCount(o) ==
    o.token_req + o.homepage_req + Len(o.bundle_req) + o.search_req
        + Len(o.detail_req)

\* A call that waits in a request while clear_cache runs: its obs notes the
\* request it was waiting in.
NoteCleared(f) ==
    [f EXCEPT !.obs.cleared = Some(<<f.pc, RequestCount(f.obs)>>)]

\* Lines 561-567.  clear_cache knows nothing of the calls that wait in a
\* request; what is noted in them is for observation only.
ClearCache ==
    /\ pc = "idle"
    /\ cached_search_url' = Nil
    /\ cached_build_id' = Nil
    /\ cached_homepage' = Nil
    /\ cached_token' = Nil
    /\ token_expires_at' = 0
    /\ last' = "clear_cache"
    /\ parked' = [k \in 1..Len(parked) |-> NoteCleared(parked[k])]
    /\ UNCHANGED <<clock, issued, pc, frame>>

\* -------------------------------------------------------------------- clock
\* Time passes between calls and while a request is in flight.
Blocked == pc \in {"token_http", "homepage_http", "bundle_http", "search_http",
                   "detail_http"}

Tick ==
    /\ pc = "idle" \/ Blocked
    /\ ticks < MaxTicks
    /\ ticks' = ticks + 1
    /\ now' = now + ClockStep
    /\ UNCHANGED <<cache, issued, pc, frame, last, parked>>

\* ------------------------------------------------------------ interleaving
\* The module is entered again while a call waits in http.get or
\* http.request: the steps between two requests of a call are not interrupted.
Running ==
    [pc |-> pc, op |-> op, loc |-> loc, obs |-> obs, pre |-> pre, ret |-> ret]

Continue(f) ==
    /\ pc' = f.pc
    /\ op' = f.op
    /\ loc' = f.loc
    /\ obs' = f.obs
    /\ pre' = f.pre
    /\ ret' = f.ret

Without(s, k) == SubSeq(s, 1, k - 1) \o SubSeq(s, k + 1, Len(s))

\* The running call waits in a request and the caller is free to start
\* another call.  One call waits at a time: two calls overlap.
Yield ==
    /\ Blocked
    /\ parked = <<>>
    /\ parked' = Append(parked, Running)
    /\ pc' = "idle"
    /\ op' = NoOp
    /\ loc' = NoLoc
    /\ obs' = NoObs
    /\ pre' = NoPre
    /\ ret' = NoRet
    /\ UNCHANGED <<cache, clock, issued, last>>

\* A waiting call goes on when the running call waits in a request itself
\* or no call is running.
Resume ==
    /\ Blocked \/ pc = "idle"
    /\ \E k \in 1..Len(parked) :
        /\ Continue(parked[k])
        /\ parked' = IF Blocked THEN Append(Without(parked, k), Running)
                                ELSE Without(parked, k)
    /\ UNCHANGED <<cache, clock, issued, last>>

\* ------------------------------------------------------------------ inputs
Title == <<"A", "b">>
NameExact == <<"a", "!", "b">>
NameNear == <<"a", "b", "b">>
NameFar == <<"b", "a">>
SteamId == 440
OtherSteamId == 570
SteamIds == {Nil, Some(SteamId)}

\* Result lists of the upstream: game ids are unique, names and counts are
\* not.  The kinds of item: an exact match after normalization, a name at
\* distance 1, and a name at distance 2 with either popularity count.
Kinds == {<<NameExact, 100>>, <<NameNear, 100>>, <<NameFar, 100>>, <<NameFar, 400>>}
ResultLists(n) ==
    UNION {{[k \in 1..m |-> Item(k, f[k][1], f[k][2])] : f \in [1..m -> Kinds]} :
               m \in 0..n}

MatchSearchResponses ==
    SearchFailures \cup {SearchData(l) : l \in ResultLists(MaxResults)}

SessionLists ==
    { <<>>,
      <<Item(1, NameNear, 100)>>,
      <<Item(1, NameFar, 100), Item(2, NameExact, 100)>>,
      <<Item(1, NameFar, 400), Item(2, NameNear, 100)>>,
      <<NotATable(Item(1, NameNear, 100), "number")>>,
      <<Item(1, NameNear, 100), NotATable(Item(2, NameNear, 100), "number")>>,
      <<Item(1, NameNear, 100), NotATable(Item(2, NameNear, 100), "string")>>,
      <<Item(1, NameNear, 100), Mistyped(Item(2, NameFar, 100), "game_id")>>,
      <<Mistyped(Item(1, NameNear, 100), "game_name")>>,
      <<Mistyped(Item(1, NameNear, 100), "comp_all_count")>> }

SessionSearchResponses ==
    SearchFailures \cup {SearchNotArray} \cup {SearchData(l) : l \in SessionLists}

DetailElements ==
    { Detail(SteamId), Detail(OtherSteamId),
      [Detail(SteamId) EXCEPT !.lua_type = "number"],
      [Detail(SteamId) EXCEPT !.lua_type = "string"] }
        \cup {[Detail(SteamId) EXCEPT !.wrong = {f}] : f \in DetailFields}

DetailResponses ==
    DetailFailures \cup {DetailData(<<>>)}
        \cup {DetailData(<<e>>) : e \in DetailElements}
        \cup {DetailData(<<Detail(SteamId), Detail(SteamId)>>)}

\* ---------------------------------------------------------- specifications
\* The session: every operation, the clock, every response the transport can
\* deliver, over a few result lists.
Next ==
    \/ \E force_refresh \in BOOLEAN : CallGetAuthToken(force_refresh)
    \/ \E steam_app_id \in SteamIds : CallSearchBestMatch(Title, steam_app_id)
    \/ TokenHttp
    \/ TokenReturn
    \/ HomepageHttp(Homepages)
    \/ HomepageReturn
    \/ ScriptLoop
    \/ BundleHttp(ValidBundles)
    \/ SearchPost
    \/ SearchHttp(SessionSearchResponses)
    \/ SearchReturn
    \/ Rank
    \/ Confirm
    \/ DetailHttp(DetailResponses)
    \/ DetailReturn
    \/ Best
    \/ Return
    \/ ClearCache
    \/ Tick

Spec == Init /\ [][Next]_vars

\* The resolution: search_best_match over every result list of up to
\* MaxResults items, over a homepage that names no bundle script (the search
\* URL is the static fallback) and an unchanging clock.
NextMatch ==
    \/ \E steam_app_id \in SteamIds : CallSearchBestMatch(Title, steam_app_id)
    \/ TokenHttp
    \/ TokenReturn
    \/ HomepageHttp(MatchHomepages)
    \/ HomepageReturn
    \/ ScriptLoop
    \/ SearchPost
    \/ SearchHttp(MatchSearchResponses)
    \/ SearchReturn
    \/ Rank
    \/ Confirm
    \/ DetailHttp(DetailResponses)
    \/ DetailReturn
    \/ Best
    \/ Return

SpecMatch == Init /\ [][NextMatch]_vars

\* The discovery: search_best_match over homepages that name up to MaxScripts
\* bundle scripts and every script response, with a search request that
\* fails (the call ends after it), and clear_cache between calls.
ScriptNames == <<"c1", "c2", "c3", "c4", "c5">>

DiscoveryHomepages ==
    {Body(SubSeq(ScriptNames, 1, n), Nil, Nil) : n \in 0..MaxScripts}

NextDiscovery ==
    \/ CallSearchBestMatch(Title, Nil)
    \/ TokenHttp
    \/ TokenReturn
    \/ HomepageHttp(DiscoveryHomepages)
    \/ HomepageReturn
    \/ ScriptLoop
    \/ BundleHttp(ValidBundles)
    \/ SearchPost
    \/ SearchHttp(SearchFailures)
    \/ SearchReturn
    \/ Return
    \/ ClearCache

SpecDiscovery == Init /\ [][NextDiscovery]_vars

\* Concurrent first use: search_best_match calls interleaved at their
\* requests, against an upstream that serves one homepage and one bundle
\* content; any request may fail.
ConcurrentHomepage == Body(<<"c1", "c2">>, Some("b1"), Nil)
ConcurrentBundle == [literals |-> <<"user", "lookup">>, posts |-> {"lookup"}]
ConcurrentSearchResponses ==
    {[kind |-> "error", data_type |-> "nil", data |-> <<>>],
     SearchData(<<Item(1, NameNear, 100)>>)}
ConcurrentDetailResponses ==
    {[kind |-> "error", game |-> <<>>], DetailData(<<Detail(SteamId)>>)}

NextConcurrent ==
    \/ CallSearchBestMatch(Title, Some(SteamId))
    \/ TokenHttp
    \/ TokenReturn
    \/ HomepageHttp({ConcurrentHomepage})
    \/ HomepageReturn
    \/ ScriptLoop
    \/ BundleHttp({ConcurrentBundle})
    \/ SearchPost
    \/ SearchHttp(ConcurrentSearchResponses)
    \/ SearchReturn
    \/ Rank
    \/ Confirm
    \/ DetailHttp(ConcurrentDetailResponses)
    \/ DetailReturn
    \/ Best
    \/ Return
    \/ Tick /\ ticks < MaxOverlapTicks
    \/ Yield
    \/ Resume

SpecConcurrent == Init /\ [][NextConcurrent]_vars

\* Invalidation during a call: while a search_best_match call waits in one
\* of its requests, its caller's side runs clear_cache (and starts no other
\* call); then the request completes and the call goes on.  Calls follow one
\* another otherwise.
NextInvalidate ==
    \/ CallSearchBestMatch(Title, Some(SteamId)) /\ parked = <<>>
    \/ TokenHttp
    \/ TokenReturn
    \/ HomepageHttp({ConcurrentHomepage})
    \/ HomepageReturn
    \/ ScriptLoop
    \/ BundleHttp({ConcurrentBundle})
    \/ SearchPost
    \/ SearchHttp(ConcurrentSearchResponses)
    \/ SearchReturn
    \/ Rank
    \/ Confirm
    \/ DetailHttp(ConcurrentDetailResponses)
    \/ DetailReturn
    \/ Best
    \/ Return
    \/ ClearCache
    \/ Yield
    \/ Resume

SpecInvalidate == Init /\ [][NextInvalidate]_vars


\* ------------------------------------------ game page detection (frontend)
\* frontend/injection/detector.ts.  An image src is a sequence of pieces:
\* the path piece "/assets/" or a decimal digit.
Digits == {"4", "7"}
SrcPieces == {"/assets/"} \cup Digits
Srcs == UNION {[1..n -> SrcPieces] : n \in 0..MaxSrcLen}

DigitValue(c) == IF c = "4" THEN 4 ELSE 7

\* An element as the detection reads it: its src ('' when it has none) and
\* the ancestor closest(containerSelector) finds, if any.
Containers == {"c1", "c2"}
Elements == {[src |-> s, container |-> c] :
                s \in Srcs, c \in {Nil} \cup {Some(x) : x \in Containers}}

\* A document as the detection reads it: what querySelector answers for the
\* header image selector and for the fallback image selector, the first
\* matching element or null.
Documents ==
    {[headerImageSelector |-> h, fallbackImageSelector |-> f] :
        h \in {Nil} \cup {Some(e) : e \in Elements},
        f \in {Nil} \cup {Some(e) : e \in Elements}}

querySelector(doc, selector) == doc[selector]

\* src.match(appIdPattern) with the pattern /\/assets\/(\d+)/ of
\* selectors.ts: the position of the first "/assets/" that a digit follows,
\* 0 for no match.
MatchAt(src) ==
    LET hits == {k \in 1..(Len(src) - 1) :
                    src[k] = "/assets/" /\ src[k + 1] \in Digits}
    IN  IF hits = {} THEN 0
        ELSE CHOOSE k \in hits : \A m \in hits : k <= m

\* match[1]: the longest run of digits from position k on.
RECURSIVE DigitRun(_, _)
DigitRun(src, k) ==
    IF k > Len(src) \/ src[k] \notin Digits THEN <<>>
    ELSE <<src[k]>> \o DigitRun(src, k + 1)

\* parseInt(digits, 10) of a run of digits.
RECURSIVE parseInt(_)
parseInt(digits) ==
    IF digits = <<>> THEN 0
    ELSE parseInt(SubSeq(digits, 1, Len(digits) - 1)) * 10
             + DigitValue(digits[Len(digits)])

\* Lines 3-21: the image, the match on its src, its container.
tryExtractGamePage(doc, imageSelector) ==
    LET img == querySelector(doc, imageSelector) IN
    IF img = Nil THEN Nil
    ELSE LET src == img[1].src
             match == MatchAt(src)
         IN  IF match = 0 THEN Nil
             ELSE IF img[1].container = Nil THEN Nil
             ELSE Some([appId |-> parseInt(DigitRun(src, match + 1)),
                        container |-> img[1].container[1]])

\* Mutant of lines 25-28: the fallback image is tried first.
detectGamePageFallbackFirst(doc) ==
    LET info == tryExtractGamePage(doc, "fallbackImageSelector") IN
    IF info # Nil THEN info
    ELSE tryExtractGamePage(doc, "headerImageSelector")

\* Lines 23-29: detectGamePage by way of tryExtractGamePage.
detectGamePage(doc) ==
    LET info == tryExtractGamePage(doc, "headerImageSelector") IN
    IF info # Nil THEN info
    ELSE tryExtractGamePage(doc, "fallbackImageSelector")

\* Lines 33-63: detectGamePage with the two attempts written out.
detectGamePageWrittenOut(doc) ==
    LET primaryImg == querySelector(doc, "headerImageSelector")
        fallbackImg == querySelector(doc, "fallbackImageSelector")
        primary ==
            IF primaryImg # Nil /\ MatchAt(primaryImg[1].src) # 0
                 /\ primaryImg[1].container # Nil
            THEN Some([appId |-> parseInt(DigitRun(primaryImg[1].src,
                                             MatchAt(primaryImg[1].src) + 1)),
                       container |-> primaryImg[1].container[1]])
            ELSE Nil
        fallback ==
            IF fallbackImg # Nil /\ MatchAt(fallbackImg[1].src) # 0
                 /\ fallbackImg[1].container # Nil
            THEN Some([appId |-> parseInt(DigitRun(fallbackImg[1].src,
                                             MatchAt(fallbackImg[1].src) + 1)),
                       container |-> fallbackImg[1].container[1]])
            ELSE Nil
    IN  IF primary # Nil THEN primary ELSE fallback

\* The detection is called on a document, in either of its two forms, and
\* returns a GamePageInfo or null.
InitDetect ==
    /\ cached_token = Nil
    /\ token_expires_at = 0
    /\ cached_search_url = Nil
    /\ cached_build_id = Nil
    /\ cached_homepage = Nil
    /\ now = 0
    /\ ticks = 0
    /\ issued = 0
    /\ pc = "idle"
    /\ op \in {[name |-> "detectGamePage", doc |-> d] : d \in Documents}
    /\ loc = NoLoc
    /\ obs = NoObs
    /\ pre = NoPre
    /\ ret = Nil
    /\ last = "none"
    /\ parked = <<>>

CallDetectGamePage ==
    /\ pc = "idle"
    /\ op.name = "detectGamePage"
    /\ ret' = detectGamePage(op.doc)
    /\ pc' = "done"
    /\ UNCHANGED <<cache, clock, issued, op, loc, obs, pre, last, parked>>

CallDetectGamePageWrittenOut ==
    /\ pc = "idle"
    /\ op.name = "detectGamePage"
    /\ ret' = detectGamePageWrittenOut(op.doc)
    /\ pc' = "done"
    /\ UNCHANGED <<cache, clock, issued, op, loc, obs, pre, last, parked>>

NextDetect ==
    \/ CallDetectGamePage
    \/ CallDetectGamePageWrittenOut

SpecDetect == InitDetect /\ [][NextDetect]_vars


\* ------------------------------------------------------------------ claims
Returned(name) == pc = "done" /\ op.name = name

\* The call found a token it may serve: the condition of line 292 on the
\* cache as it was when the call started.
FoundValidToken ==
    /\ ~op.force_refresh
    /\ pre.cached_token # Nil
    /\ loc.now < pre.token_expires_at

\* C1: get_auth_token never returns a token at or after its expiry: what it
\* returns is the cached token at an instant before token_expires_at, or the
\* token fetched by this very call, or nil with an error.
C1_TokenWithinTtlOrError ==
    Returned("get_auth_token") =>
        \/ /\ ret.token # Nil
           /\ ret.err = Nil
           /\ \/ /\ obs.token_req = 0
                 /\ ret.token = pre.cached_token
                 /\ ret.token = cached_token
                 /\ now < token_expires_at
              \/ /\ obs.token_req = 1
                 /\ ret.token = obs.fresh_token
        \/ /\ ret.token = Nil
           /\ ret.err # Nil

\* A cached token is served after the clock has advanced, half a TTL before
\* its expiry.
C1_Witness ==
    /\ Returned("get_auth_token")
    /\ obs.token_req = 0
    /\ ret.token # Nil
    /\ now + ClockStep = token_expires_at

\* C2: a call that finds a cached token within its TTL and is not forced
\* issues no token request; every other call issues exactly one.  This holds
\* of the call from outside and of the call M.search makes.
C2_TokenRequestCount ==
    pc = "done" => obs.token_req = (IF FoundValidToken THEN 0 ELSE 1)

\* A forced refresh while the cached token is within its TTL.
C2_Witness ==
    /\ Returned("get_auth_token")
    /\ op.force_refresh
    /\ pre.cached_token # Nil
    /\ loc.now < pre.token_expires_at
    /\ obs.token_req = 1
    /\ ret.token # Nil

CacheEmpty ==
    /\ cached_homepage = Nil
    /\ cached_build_id = Nil
    /\ cached_search_url = Nil
    /\ cached_token = Nil
    /\ token_expires_at = 0

\* C3 as stated: after clear_cache every field is absent, and the next
\* search_best_match fetches the token, fetches the homepage and resolves the
\* search URL (and the build id before a detail request) anew.
C3_NextCallRediscoversAll ==
    /\ (pc = "idle" /\ last = "clear_cache") => CacheEmpty
    /\ (Returned("search_best_match") /\ pre.after_clear) =>
          /\ obs.token_req = 1
          /\ obs.homepage_req >= 1
          /\ obs.url_resolved
          /\ (obs.detail_req # <<>> => obs.build_extracted)

\* C3 as amended: after clear_cache every field is absent; the next
\* search_best_match issues one token request, and posts its search only with
\* the token that request delivered, to a URL resolved by this call after a
\* homepage request of this call; it makes a detail request only with a build
\* id extracted by this call; and the token it leaves cached is that token.
C3_NextCallUsesNothingStale ==
    /\ (pc = "idle" /\ last = "clear_cache") => CacheEmpty
    /\ (op.name = "search_best_match" /\ pre.after_clear) =>
          /\ obs.token_req = 1
          /\ pre.cached_token = Nil
          /\ cached_token \in {Nil, obs.fresh_token}
          /\ (obs.search_req > 0 =>
                 /\ obs.sent_token # Nil
                 /\ obs.sent_token = obs.fresh_token
                 /\ obs.url_resolved
                 /\ obs.homepage_req >= 1
                 /\ obs.sent_url = cached_search_url)
          /\ (obs.detail_req # <<>> =>
                 /\ obs.build_extracted
                 /\ obs.homepage_req >= 1)

\* The call after clear_cache fetched a second token (the first was issued
\* before the invalidation), resolved the URL, extracted the build id and
\* returned an item confirmed by a detail request.
C3_Witness ==
    /\ Returned("search_best_match")
    /\ pre.after_clear
    /\ obs.fresh_token = Some(2)
    /\ obs.search_req = 1
    /\ obs.build_extracted
    /\ obs.confirmed_at = 1
    /\ ret.kind = "item"


\* The edit distance between the normalized title of the call and the
\* normalized name of a result item, from a table over the names in use.
NamesInUse == {Title, NameExact, NameNear, NameFar}

DistanceTable ==
    [a \in NamesInUse, b \in NamesInUse |->
        levenshtein_distance(Normalize(a), Normalize(b))]

Distance(it) == DistanceTable[op.app_name, it.game_name]

\* The distances and popularities of the ranked candidates, in rank order.
RankedDistance == [k \in 1..Len(loc.possible_choices) |->
                      Distance(loc.possible_choices[k].item)]
RankedCount == [k \in 1..Len(loc.possible_choices) |->
                   loc.possible_choices[k].item.comp_all_count]

\* distance(a) < distance(b), or distance(a) = distance(b) and
\* popularity(a) > popularity(b), of the candidates of ranks a and b.
Precedes(d, c, a, b) ==
    \/ d[a] < d[b]
    \/ d[a] = d[b] /\ c[a] > c[b]

IsExact(it) == Normalize(it.game_name) = Normalize(op.app_name)

NoDetailFetch == obs.detail_calls = <<>> /\ obs.detail_req = <<>>

\* M.search returned a result array to the search_best_match that has ended.
Resolved == Returned("search_best_match") /\ loc.search_results # Nil

Results == loc.search_results[1]

\* C4: with an empty result array search_best_match returns nil and makes no
\* detail fetch, with or without a Steam id.
C4_EmptyResultsNotFound ==
    (Resolved /\ Results = <<>>) => (ret = RetNil /\ NoDetailFetch)

\* An empty result array with a Steam id supplied.
C4_Witness ==
    /\ Resolved
    /\ Results = <<>>
    /\ op.steam_app_id # Nil
    /\ ret.kind = "nil"

\* C5: if some result is an exact match after normalization, the first such
\* result in result order is returned and no detail fetch is made.
C5_FirstExactMatchWins ==
    (Resolved /\ \E k \in 1..Len(Results) : IsExact(Results[k])) =>
        /\ \E k \in 1..Len(Results) :
              /\ IsExact(Results[k])
              /\ \A m \in 1..(k - 1) : ~IsExact(Results[m])
              /\ ret = RetItem(Results[k])
        /\ NoDetailFetch

\* Two exact matches behind a closer-to-the-front, more popular candidate
\* that is none, with a Steam id supplied: the first exact match is returned.
C5_Witness ==
    /\ Resolved
    /\ op.steam_app_id # Nil
    /\ Len(Results) = 4
    /\ ~IsExact(Results[1]) /\ Results[1].comp_all_count > Results[2].comp_all_count
    /\ IsExact(Results[2]) /\ ~IsExact(Results[3]) /\ IsExact(Results[4])
    /\ Results[2].game_name # op.app_name
    /\ ret = RetItem(Results[2])

Ranking == loc.possible_choices

\* C6 as stated: a is placed before b in the ranking if and only if
\* distance(a) < distance(b), or the distances are equal and
\* popularity(a) > popularity(b).
C6_RankingTotalOrder ==
    obs.ranked =>
        LET d == RankedDistance
            c == RankedCount
        IN  \A a, b \in 1..Len(Ranking) :
                a # b => (a < b <=> Precedes(d, c, a, b))

\* C6 as amended: the ranking holds every result once, and a is placed
\* before b whenever distance(a) < distance(b), or the distances are equal
\* and popularity(a) > popularity(b); two candidates equal in both are in
\* either order.
C6_RankingSorted ==
    obs.ranked =>
        /\ Len(Ranking) = Len(Results)
        /\ {Ranking[k].item : k \in 1..Len(Ranking)} = Range(Results)
        /\ LET d == RankedDistance
               c == RankedCount
           IN  \A a, b \in 1..Len(Ranking) : Precedes(d, c, a, b) => a < b

\* A ranking that differs from the result order, with candidates at different
\* distances, a pair that popularity orders and a pair equal in both.
C6_Witness ==
    /\ obs.ranked
    /\ Len(Ranking) = 4
    /\ Ranking[1].item = Results[4]
    /\ Ranking[2].item.comp_all_count > Ranking[3].item.comp_all_count
    /\ Ranking[3].item.comp_all_count = Ranking[4].item.comp_all_count
    /\ Distance(Ranking[1].item) < Distance(Ranking[2].item)
    /\ Distance(Ranking[2].item) = Distance(Ranking[3].item)
    /\ Distance(Ranking[3].item) = Distance(Ranking[4].item)

\* The rank of the candidate with a game id.
RankOf(id) == CHOOSE k \in 1..Len(Ranking) : Ranking[k].item.game_id = id

\* C7: a call makes at most 3 detail fetches, on the top-ranked candidates
\* in rank order: the k-th call of fetch_game_data is for the candidate of
\* rank k, and the detail requests go to candidates of ranks up to 3, in
\* ascending rank.
C7_AtMostThreeChecks ==
    op.name = "search_best_match" =>
        /\ Len(obs.detail_calls) <= 3
        /\ Len(obs.detail_req) <= Len(obs.detail_calls)
        /\ \A k \in 1..Len(obs.detail_calls) :
              obs.detail_calls[k] = Ranking[k].item.game_id
        /\ \A k \in 1..Len(obs.detail_req) :
              /\ \E j \in 1..Min(3, Len(Ranking)) :
                    obs.detail_req[k] = Ranking[j].item.game_id
              /\ k > 1 => RankOf(obs.detail_req[k - 1]) < RankOf(obs.detail_req[k])

\* Four candidates, none confirmed: three detail requests, and the call
\* returns the top-ranked candidate.
C7_Witness ==
    /\ Returned("search_best_match")
    /\ Len(Ranking) = 4
    /\ Len(obs.detail_req) = 3
    /\ obs.confirmed_at = 0
    /\ ret = RetItem(Ranking[1].item)

\* C8: once a detail record carries the supplied Steam id, the call returns
\* the search result item of that candidate, and fetch_game_data is called
\* for no candidate of lower rank.
C8_ConfirmedCandidateReturned ==
    obs.confirmed_at # 0 =>
        /\ pc \in {"detail_ret", "done"}
        /\ Len(obs.detail_calls) = obs.confirmed_at
        /\ obs.detail_req[Len(obs.detail_req)] = Ranking[obs.confirmed_at].item.game_id
        /\ pc = "done" => ret = RetItem(Ranking[obs.confirmed_at].item)

\* The second of four candidates is confirmed and returned.
C8_Witness ==
    /\ Returned("search_best_match")
    /\ obs.confirmed_at = 2
    /\ Len(Ranking) = 4
    /\ Len(obs.detail_req) = 2
    /\ ret = RetItem(Ranking[2].item)

\* C9: a detail fetch that fails does not end the resolution: a call that
\* attempts confirmation and confirms no candidate has called fetch_game_data
\* for every candidate within the cap and returns the top-ranked candidate.
C9_FailedFetchNotFatal ==
    (Returned("search_best_match") /\ obs.detail_calls # <<>> /\ obs.confirmed_at = 0) =>
        /\ Len(obs.detail_calls) = Min(3, Len(Ranking))
        /\ ret = RetItem(Ranking[1].item)

\* C10: without a Steam id and without an exact match, no detail fetch is
\* made and the item returned is a result of minimal distance and, among
\* those, of maximal popularity.
C10_ClosestMostPopular ==
    (/\ Resolved
     /\ op.steam_app_id = Nil
     /\ Results # <<>>
     /\ \A k \in 1..Len(Results) : ~IsExact(Results[k])) =>
        /\ NoDetailFetch
        /\ ret.kind = "item"
        /\ LET d == [k \in 1..Len(Results) |-> Distance(Results[k])]
           IN  \E k \in 1..Len(Results) :
                  /\ ret.item = Some(Results[k])
                  /\ \A m \in 1..Len(Results) :
                        /\ d[k] <= d[m]
                        /\ d[k] = d[m] =>
                              Results[k].comp_all_count >= Results[m].comp_all_count

\* Two results at distance 2 with popularity 100 and 400, in that order: the
\* second is returned.
C10_Witness ==
    /\ Resolved
    /\ op.steam_app_id = Nil
    /\ Len(Results) = 2
    /\ Distance(Results[1]) = 2 /\ Results[1].comp_all_count = 100
    /\ Distance(Results[2]) = 2 /\ Results[2].comp_all_count = 400
    /\ ret = RetItem(Results[2])


\* ------------------------------------------------------ endpoint discovery
\* get_search_url has returned to M.search, having resolved the URL in this
\* call.
UrlResolved == pc = "search_post" /\ obs.url_resolved

\* The homepage request of the resolution failed.
HomepageFailed == loc.homepage = Nil

\* The scripts the homepage names, in order of appearance.
ScriptsNamed == IF HomepageFailed THEN <<>> ELSE loc.homepage[1].script_urls

\* C11: search URL resolution always ends with a URL, stored and handed to
\* the search request, whatever the homepage and script responses are; the
\* URL is the static fallback whenever the homepage request failed or no
\* fetched script holds a verified path; no error is raised.
C11_SearchUrlAlwaysResolved ==
    /\ ret.kind # "raised"
    /\ UrlResolved =>
          /\ loc.search_url # Nil
          /\ cached_search_url = loc.search_url
          /\ (HomepageFailed \/ obs.verified_at = 0) =>
                 loc.search_url = Some(SEARCH_URL)
    /\ obs.search_req > 0 => obs.sent_url # Nil

\* The homepage names two scripts; the first request fails, the second
\* script holds no verified path: the fallback is the URL.
C11_Witness ==
    /\ UrlResolved
    /\ Len(ScriptsNamed) = 2
    /\ obs.failed_at = 1
    /\ Len(obs.bundle_req) = 2
    /\ obs.verified_at = 0
    /\ loc.search_url = Some(SEARCH_URL)


\* ---------------------------------------------------------- search failures
\* C12: a search response that violates the schema (data is not an array, or
\* some element lacks a numeric game_id, a string game_name or a numeric
\* comp_all_count) fails as a whole: M.search returns nil, no item of the
\* response is used, and search_best_match returns nil.
C12_SchemaViolationFailsClosed ==
    (op.name = "search_best_match" /\ obs.search_resp = "schema") =>
        /\ loc.search_results = Nil
        /\ ~obs.ranked
        /\ NoDetailFetch
        /\ pc = "done" => ret = RetNil

\* M.search has failed: no token, no usable response, or a response that
\* violates the schema.
SearchFailed ==
    \/ pc \in {"token_ret", "done"} /\ obs.token_req = 1 /\ loc.auth_token = Nil
    \/ obs.search_resp \in {"failure", "schema"}

\* C13: when M.search fails, search_best_match returns nil to its caller: it
\* ranks nothing, makes no detail fetch and raises no error.
C13_SearchFailureIsNotFound ==
    (op.name = "search_best_match" /\ SearchFailed) =>
        /\ ret.kind # "raised"
        /\ ~obs.ranked
        /\ NoDetailFetch
        /\ pc \in {"token_ret", "search_ret", "done"}
        /\ pc = "done" => ret.kind = "nil"

\* C14: nothing is retried.  A search_best_match call issues at most one
\* token request, at most one search request and at most one detail request
\* per candidate; a get_auth_token call whose token request fails returns nil
\* with an error after that one request.
C14_NoRetry ==
    /\ op.name = "search_best_match" =>
          /\ obs.token_req <= 1
          /\ obs.search_req <= 1
          /\ Len(obs.detail_req) <= Len(obs.detail_calls)
          /\ \A j, k \in 1..Len(obs.detail_req) :
                 j # k => obs.detail_req[j] # obs.detail_req[k]
          /\ \A j, k \in 1..Len(obs.detail_calls) :
                 j # k => obs.detail_calls[j] # obs.detail_calls[k]
    /\ (Returned("get_auth_token") /\ ret.token = Nil) =>
          /\ obs.token_req = 1
          /\ ret.err # Nil
    /\ (op.name = "search_best_match" /\ pc \in {"token_ret", "done"}
           /\ loc.auth_token = Nil) => obs.token_req = 1

\* A call whose two candidates both went unconfirmed: one token request, one
\* search request, one detail request for each.
C14_Witness ==
    /\ Returned("search_best_match")
    /\ obs.token_req = 1
    /\ obs.search_req = 1
    /\ Len(obs.detail_req) = 2
    /\ obs.confirmed_at = 0
    /\ ret.kind = "item"


\* -------------------------------------------------------------- concurrency
\* What a sequential execution against the upstream of SpecConcurrent can
\* store: the homepage it serves, the build id of that homepage, the fallback
\* or the path its bundle verifies; a build id or a discovered path only next
\* to the homepage, a build id only after the URL.
SequentialCache ==
    /\ cached_homepage \in {Nil, Some(ConcurrentHomepage)}
    /\ cached_build_id \in {Nil, BuildIdOf(ConcurrentHomepage)}
    /\ cached_search_url \in {Nil, Some(SEARCH_URL), Some("lookup")}
    /\ cached_build_id # Nil => cached_homepage # Nil /\ cached_search_url # Nil
    /\ cached_search_url = Some("lookup") => cached_homepage # Nil
    /\ cached_token = Nil <=> token_expires_at = 0
    /\ cached_token # Nil => cached_token[1] \in 1..issued

\* A step that writes the token or the expiry writes both: the token the
\* running call's request delivered, and the instant that call read on entry
\* plus the TTL.
TokenPairedWithExpiry ==
    (cached_token' # cached_token \/ token_expires_at' # token_expires_at) =>
        /\ pc = "token_http"
        /\ cached_token' = obs'.fresh_token
        /\ cached_token' # Nil
        /\ cached_token' # cached_token
        /\ token_expires_at' = loc.now + TOKEN_TTL

\* C15: under every interleaving of two search_best_match calls at their
\* requests, from an empty cache, the homepage, the build id, the search URL
\* and the token hold values a sequential execution against the same upstream
\* can store, and the token is always stored together with its own expiry.
C15_ConcurrentCallsKeepCacheSound ==
    []SequentialCache /\ [][TokenPairedWithExpiry]_vars

\* Two overlapping calls: the running call entered get_auth_token before the
\* waiting one, received its token after it, and has overwritten the waiting
\* call's token and later expiry with its own.
C15_Witness ==
    /\ pc = "token_ret"
    /\ parked # <<>>
    /\ parked[1].obs.fresh_token # Nil
    /\ obs.fresh_token # Nil
    /\ cached_token = obs.fresh_token
    /\ obs.fresh_token # parked[1].obs.fresh_token
    /\ parked[1].loc.now > loc.now
    /\ token_expires_at = loc.now + TOKEN_TTL


\* ------------------------------------------------------------ build id
\* extract_build_id is about to return nil to fetch_game_data.
BuildIdNotFound ==
    /\ pc = "homepage_ret"
    /\ loc.homepage_for = "build"
    /\ (loc.homepage = Nil \/ BuildIdOf(loc.homepage[1]) = Nil)

\* fetch_game_data returns nil at once when there is no build id, and a
\* detail request is only ever issued with one.
FailsWithoutRequest ==
    /\ BuildIdNotFound =>
          /\ pc' = "detail_ret"
          /\ loc'.game_data = Nil
          /\ obs'.detail_req = obs.detail_req
          /\ cached_build_id' = Nil
    /\ Len(obs'.detail_req) > Len(obs.detail_req) =>
          /\ pc' = "detail_http"
          /\ cached_build_id' # Nil

\* C16: when extract_build_id finds no build id, fetch_game_data returns nil
\* immediately and issues no detail request.
C16_NoBuildIdNoRequest == [][FailsWithoutRequest]_vars

\* fetch_game_data has returned nil for the first candidate over a homepage
\* that names no build id: no detail request was issued.
C16_Witness ==
    /\ pc = "detail_ret"
    /\ loc.game_data = Nil
    /\ Len(obs.detail_calls) = 1
    /\ obs.detail_req = <<>>
    /\ cached_homepage # Nil
    /\ cached_build_id = Nil


\* ------------------------------------------------------- discovered endpoint
\* C17: the fallback is the URL only if the homepage request failed or no
\* fetched script holds a path that is not skip-listed and is the target of
\* a POST fetch in that script: when some fetched script holds such a path,
\* the resolved URL is a discovered path.
C17_FallbackOnlyWithoutVerifiedPath ==
    (UrlResolved /\ obs.verified_at # 0) =>
        /\ loc.search_url # Some(SEARCH_URL)
        /\ loc.search_url[1] \in Endpoints \ SKIP_ENDPOINTS

\* The scripts requested so far are the first ones the homepage names, in
\* its order.
RequestedInOrder ==
    /\ Len(obs.bundle_req) <= Len(ScriptsNamed)
    /\ obs.bundle_req = SubSeq(ScriptsNamed, 1, Len(obs.bundle_req))

TokenIssued == pc = "token_ret" /\ obs.fresh_token # Nil

\* C19 as stated: the TTL runs from the issuance of the token, however long
\* the token request took: when the token has arrived, its expiry is
\* TOKEN_TTL after that instant.
C19_TtlFromIssuance ==
    TokenIssued => token_expires_at = now + TOKEN_TTL

\* C19 as amended: the TTL runs from the instant get_auth_token read the
\* clock, before it sent the request: the expiry is that instant plus
\* TOKEN_TTL, so the time the request took is taken off the time the token is
\* served; and a later call that is not forced serves the cached token
\* exactly while the clock it reads is before that expiry.
C19_TtlFromFetchStart ==
    /\ TokenIssued =>
          /\ cached_token = obs.fresh_token
          /\ token_expires_at = loc.now + TOKEN_TTL
          /\ token_expires_at <= now + TOKEN_TTL
    /\ (pc = "token_ret" /\ ~op.force_refresh /\ pre.cached_token # Nil) =>
          /\ loc.now < pre.token_expires_at =>
                 obs.token_req = 0 /\ loc.auth_token = pre.cached_token
          /\ loc.now >= pre.token_expires_at => obs.token_req = 1

\* The token request took half a TTL: the token arrives with half its TTL
\* left.
C19_Witness ==
    /\ TokenIssued
    /\ now = loc.now + ClockStep
    /\ token_expires_at = now + ClockStep

\* fetch_game_data is about to be called for a candidate.
CallsFetchGameData == pc = "confirm" /\ loc.i <= LastCheck(loc.possible_choices)

\* The build id is written only by a successful extraction (or cleared by
\* clear_cache); a call of fetch_game_data that finds it cached goes to its
\* detail request with no homepage step in between; a call that finds none
\* cached starts the extraction, whatever happened to earlier extractions.
BuildIdCachedOnSuccess ==
    /\ cached_build_id' # cached_build_id =>
          \/ /\ pc = "idle" /\ last' = "clear_cache" /\ cached_build_id' = Nil
          \/ /\ pc = "homepage_ret" /\ loc.homepage_for = "build"
             /\ cached_build_id = Nil
             /\ loc.homepage # Nil
             /\ cached_build_id' = BuildIdOf(loc.homepage[1])
             /\ cached_build_id' # Nil
    /\ (CallsFetchGameData /\ cached_build_id # Nil) =>
          /\ pc' = "detail_http"
          /\ obs'.homepage_req = obs.homepage_req
          /\ UNCHANGED cached_build_id
    /\ (CallsFetchGameData /\ cached_build_id = Nil) =>
          /\ loc'.homepage_for = "build"
          /\ pc' = IF cached_homepage = Nil THEN "homepage_http" ELSE "homepage_ret"
    /\ BuildIdNotFound => cached_build_id' = Nil /\ UNCHANGED cached_homepage

\* C20: the build id is cached only when extraction succeeds and is then
\* returned without a homepage fetch; after a failed extraction no build id
\* is cached and the next fetch_game_data call extracts again.
C20_BuildIdCachedOnlyOnSuccess == [][BuildIdCachedOnSuccess]_vars

\* A call confirms its second candidate with the build id an earlier call
\* cached, having made no homepage request itself, after its first
\* candidate's detail request.
C20_Witness ==
    /\ pc = "detail_http"
    /\ Len(obs.detail_req) = 2
    /\ obs.homepage_req = 0
    /\ ~obs.build_extracted
    /\ cached_build_id # Nil

C22_EmptyResultsAreSuccess ==
    op.name = "search_best_match" =>
        /\ obs.search_resp = "empty" =>
              /\ pc \in {"search_ret", "done"}
              /\ loc.search_results = Some(<<>>)
              /\ ret.kind # "raised"
        /\ obs.search_resp \in {"failure", "schema"} => loc.search_results = Nil

\* M.search has returned the response with the empty array to
\* search_best_match.
C22_Witness ==
    /\ pc = "search_ret"
    /\ obs.search_resp = "empty"
    /\ loc.search_results = Some(<<>>)

\* ------------------------------------------------------- failed token fetch
\* The token request of the running call has failed.
TokenFetchFailed ==
    /\ pc \in {"token_ret", "done"}
    /\ obs.token_req = 1
    /\ loc.auth_token = Nil

\* C23: a failed token fetch leaves the session unchanged: when
\* get_auth_token ends in an error, forced or not, cached_token and
\* token_expires_at are what the call found; get_auth_token then returns nil
\* with the error; and a call that is not forced and finds a cached token
\* within its TTL returns that token without a request.
C23_FailedFetchKeepsToken ==
    /\ TokenFetchFailed =>
          /\ cached_token = pre.cached_token
          /\ token_expires_at = pre.token_expires_at
          /\ obs.fresh_token = Nil
          /\ Returned("get_auth_token") => ret.token = Nil /\ ret.err # Nil
    /\ (pc = "token_ret" /\ FoundValidToken) =>
          /\ obs.token_req = 0
          /\ loc.auth_token = pre.cached_token
          /\ loc.auth_token = cached_token

\* A forced refresh has failed while the cached token was within its TTL:
\* the token and its expiry are still cached.
C23_Witness ==
    /\ Returned("get_auth_token")
    /\ op.force_refresh
    /\ TokenFetchFailed
    /\ cached_token # Nil
    /\ now < token_expires_at
    /\ ret.err # Nil

\* ------------------------------------------------------- cached search URL
\* get_search_url has returned to the running M.search.
SearchUrlReturned ==
    /\ op.name = "search_best_match"
    /\ pc \notin {"token_http", "token_ret", "homepage_http", "homepage_ret",
                  "scripts", "bundle_http"} \/ loc.homepage_for = "build"
    /\ loc.auth_token # Nil

\* C24: once get_search_url has returned, the URL is cached, discovered or
\* fallback; a call that finds a URL cached leaves it as it is, and a later
\* M.search posts to that URL without a homepage request for the endpoint
\* and without a bundle request, also when the URL is the fallback and the
\* homepage is not cached (its request had failed).  No call removes or
\* replaces a cached URL: that is left to clear_cache.
C24_SearchUrlCachedUntilCleared ==
    /\ SearchUrlReturned =>
          /\ cached_search_url # Nil
          /\ loc.search_url = cached_search_url
    /\ (pc # "idle" /\ pre.cached_search_url # Nil) =>
          /\ cached_search_url = pre.cached_search_url
          /\ ~obs.url_resolved
          /\ obs.bundle_req = <<>>
          /\ loc.homepage_for # "url"
          /\ loc.endpoints_found = {}
          /\ obs.search_req > 0 => obs.sent_url = pre.cached_search_url

\* A later call posts its search to the cached fallback, which an earlier
\* call chose when its homepage request failed (the homepage is still not
\* cached): it has made no homepage and no bundle request.
C24_Witness ==
    /\ pc = "search_http"
    /\ pre.cached_search_url = Some(SEARCH_URL)
    /\ cached_homepage = Nil
    /\ obs.sent_url = Some(SEARCH_URL)
    /\ obs.homepage_req = 0
    /\ obs.bundle_req = <<>>

\* ------------------------------------------------------ search without token
\* The token request M.search made through get_auth_token has failed.
SearchTokenFailed ==
    /\ op.name = "search_best_match"
    /\ pc # "token_http"
    /\ obs.token_req = 1
    /\ obs.fresh_token = Nil

\* C25: when the token cannot be obtained, M.search returns nil without the
\* search POST and without endpoint discovery: the call makes no homepage,
\* bundle, search or detail request, and cached_search_url, cached_homepage
\* and cached_build_id are what the call found.
C25_NoTokenNoSearchNoDiscovery ==
    SearchTokenFailed =>
        /\ pc \in {"token_ret", "done"}
        /\ loc.auth_token = Nil
        /\ obs.search_req = 0
        /\ obs.homepage_req = 0
        /\ obs.bundle_req = <<>>
        /\ obs.detail_req = <<>>
        /\ ~obs.url_resolved
        /\ cached_search_url = pre.cached_search_url
        /\ cached_homepage = pre.cached_homepage
        /\ cached_build_id = pre.cached_build_id
        /\ pc = "done" => ret = RetNil

\* The first search_best_match of a session, with nothing cached, has
\* ended on a failed token request: nothing is cached still.
C25_Witness ==
    /\ Returned("search_best_match")
    /\ SearchTokenFailed
    /\ ret = RetNil
    /\ pre.cached_search_url = Nil
    /\ cached_search_url = Nil
    /\ cached_homepage = Nil
    /\ cached_build_id = Nil

\* ------------------------------------------------------------ returned item
\* C26: every value search_best_match returns that is not nil is an item of
\* the result list M.search returned to that call, never the detail record
\* of a confirmation: the first exact match (no detail fetch), the candidate
\* a detail record confirmed, or the top-ranked candidate.
C26_ReturnsItemOfOwnResults ==
    (Returned("search_best_match") /\ ret.kind # "raised" /\ ret # RetNil) =>
        /\ ret.kind = "item"
        /\ loc.search_results # Nil
        /\ \E k \in 1..Len(Results) : ret = RetItem(Results[k])
        /\ loc.game_data # Nil => ret.item # loc.game_data
        /\ \/ IsExact(ret.item[1]) /\ ~obs.ranked /\ NoDetailFetch
           \/ /\ obs.confirmed_at # 0
              /\ ret = RetItem(Ranking[obs.confirmed_at].item)
           \/ /\ obs.confirmed_at = 0
              /\ obs.ranked
              /\ ret = RetItem(Ranking[1].item)

\* The detail record of the first candidate has confirmed it: the call
\* returns the third item of its result list, which ranked first.
C26_Witness ==
    /\ Resolved
    /\ Len(Results) = 3
    /\ obs.confirmed_at = 1
    /\ loc.game_data # Nil
    /\ Ranking[1].item = Results[3]
    /\ ret = RetItem(Results[3])

\* ------------------------------------------------ invalidation in flight
\* The request the running call was waiting in when clear_cache ran has
\* completed, and the call has issued no request since.
CompletedAcrossClear(request) ==
    /\ pc # "idle"
    /\ obs.cleared = Some(<<request, RequestCount(obs)>>)
    /\ pc # request

\* C27: when clear_cache has run while a token, homepage or bundle request
\* of a call was in flight, the completion of that request does not put its
\* result into the cache: after it the token (and its expiry), the homepage
\* body, respectively the discovered search URL are still absent.
C27_NoWriteBackAfterClear ==
    /\ (CompletedAcrossClear("token_http") /\ pc = "token_ret") =>
          cached_token = Nil /\ token_expires_at = 0
    /\ (CompletedAcrossClear("homepage_http") /\ pc = "homepage_ret") =>
          cached_homepage = Nil
    /\ (CompletedAcrossClear("bundle_http") /\ pc = "search_post") =>
          cached_search_url = Nil

\* --------------------------------------------------------- token and expiry
\* The token is absent if and only if the expiry is 0.
TokenAndExpiryTogether == cached_token = Nil <=> token_expires_at = 0

\* A step that changes the token or the expiry is clear_cache, which leaves
\* neither, or the arrival of the token a get_auth_token call fetched, which
\* stores it with the instant that call read on entry, before its request,
\* plus TOKEN_TTL.
TokenSetAndClearedWithExpiry ==
    (cached_token' # cached_token \/ token_expires_at' # token_expires_at) =>
        \/ /\ pc = "idle"
           /\ last' = "clear_cache"
           /\ cached_token' = Nil
           /\ token_expires_at' = 0
        \/ /\ pc = "token_http"
           /\ obs.token_req = 1
           /\ cached_token' = obs'.fresh_token
           /\ cached_token' # Nil
           /\ loc.now <= now
           /\ token_expires_at' = loc.now + TOKEN_TTL

\* C28: in a sequential execution the token and its expiry are set and
\* cleared together: in every state cached_token is absent if and only if
\* token_expires_at is 0, and a cached token's expiry is the start instant of
\* the fetch that produced it plus TOKEN_TTL (it is written with the token
\* and not changed while that token is cached).
C28_TokenAndExpirySetTogether ==
    []TokenAndExpiryTogether /\ [][TokenSetAndClearedWithExpiry]_vars

\* After clear_cache had removed the first token and its expiry, a call
\* has fetched the second: it is cached with the instant the call started
\* plus TOKEN_TTL, the request having taken time.
C28_Witness ==
    /\ pc = "token_ret"
    /\ pre.after_clear
    /\ pre.cached_token = Nil
    /\ pre.token_expires_at = 0
    /\ cached_token = Some(2)
    /\ now > loc.now
    /\ token_expires_at = loc.now + TOKEN_TTL

\* -------------------------------------------------------- game page detection
\* The image a selector finds exists, its src matches the app id pattern
\* and it has an enclosing container.
PassesChecks(img) ==
    /\ img # Nil
    /\ \E k \in 1..(Len(img[1].src) - 1) :
           img[1].src[k] = "/assets/" /\ img[1].src[k + 1] \in Digits
    /\ img[1].container # Nil

\* The app id in a src that matches: the digits after the first "/assets/"
\* that a digit follows, up to three of them here.
AppIdIn(src) ==
    LET k == CHOOSE j \in 1..(Len(src) - 1) :
                 /\ src[j] = "/assets/" /\ src[j + 1] \in Digits
                 /\ \A m \in 1..(j - 1) :
                        ~(src[m] = "/assets/" /\ src[m + 1] \in Digits)
        d(j) == DigitValue(src[j])
        isd(j) == j <= Len(src) /\ src[j] \in Digits
    IN  IF isd(k + 2) /\ isd(k + 3) THEN 100 * d(k + 1) + 10 * d(k + 2) + d(k + 3)
        ELSE IF isd(k + 2) THEN 10 * d(k + 1) + d(k + 2)
        ELSE d(k + 1)

InfoOf(img) ==
    Some([appId |-> AppIdIn(img[1].src), container |-> img[1].container[1]])

\* C29: detectGamePage gives the header image precedence: it returns the
\* app id and container of the header image whenever that image exists, its
\* src matches the pattern and it has a container; otherwise it returns the
\* same of the fallback image when that passes the three checks; and null
\* when neither does.
C29_PrimaryBeforeFallback ==
    Returned("detectGamePage") =>
        LET primaryImg == op.doc.headerImageSelector
            fallbackImg == op.doc.fallbackImageSelector
        IN  IF PassesChecks(primaryImg) THEN ret = InfoOf(primaryImg)
            ELSE IF PassesChecks(fallbackImg) THEN ret = InfoOf(fallbackImg)
            ELSE ret = Nil

\* Both images pass the three checks, with different app ids and different
\* containers: the header image's are returned.
C29_Witness ==
    /\ Returned("detectGamePage")
    /\ PassesChecks(op.doc.headerImageSelector)
    /\ PassesChecks(op.doc.fallbackImageSelector)
    /\ op.doc.headerImageSelector[1].src = <<"4", "/assets/", "7">>
    /\ op.doc.fallbackImageSelector[1].src = <<"/assets/", "4", "7">>
    /\ ret = Some([appId |-> 7, container |-> "c2"])
    /\ op.doc.fallbackImageSelector[1].container = Some("c1")


====
